---- MODULE Spec2Model ----
(***************************************************************************)
(* Model of get-transits.py: the row-building loop of main(), the lazy     *)
(* filter chain, the enrichment loop, the sort and the CSV output.         *)
(* Texts are sequences of one-character strings; an optional dictionary    *)
(* key is a sequence of length 0 (absent) or 1 (present).                  *)
(***************************************************************************)
EXTENDS Integers, Sequences, FiniteSets, TLC

VARIABLES pc, year, config, nrows, tr, transits, filtered, fidx, eidx,
          calls, pending, stdout, exc, verdict

vars == <<pc, year, config, nrows, tr, transits, filtered, fidx, eidx,
          calls, pending, stdout, exc, verdict>>

----------------------------------------------------------------------------
(* Bounds *)

\* rows of the HTML table read in one run
MaxRows == 2
\* length of the lists handed to the sort in SpecSort
MaxSortLen == 4

----------------------------------------------------------------------------
(* Characters and numbers in text *)

Digits == {"0", "1", "2", "3", "4", "5", "6", "7", "8", "9"}

DigitVal(c) ==
  CASE c = "0" -> 0 [] c = "1" -> 1 [] c = "2" -> 2 [] c = "3" -> 3
    [] c = "4" -> 4 [] c = "5" -> 5 [] c = "6" -> 6 [] c = "7" -> 7
    [] c = "8" -> 8 [] c = "9" -> 9

AllDigits(s) == \A i \in 1..Len(s) : s[i] \in Digits

RECURSIVE DigitsVal(_)
DigitsVal(s) ==
  IF s = <<>> THEN 0
  ELSE 10 * DigitsVal(SubSeq(s, 1, Len(s) - 1)) + DigitVal(s[Len(s)])

\* int(text) for the texts the program passes to it: an optional minus sign
\* and decimal digits; anything else raises ValueError.
IntOk(s) ==
  \/ Len(s) >= 1 /\ AllDigits(s)
  \/ Len(s) >= 2 /\ s[1] = "-" /\ AllDigits(Tail(s))

int(s) == IF s[1] = "-" THEN 0 - DigitsVal(Tail(s)) ELSE DigitsVal(s)

\* float(text), in thousandths: digits, optionally a point and up to three
\* more digits; anything else raises ValueError.
FloatPoint(s) ==
  IF \E i \in 1..Len(s) : s[i] = "."
  THEN CHOOSE i \in 1..Len(s) : s[i] = "." /\ \A j \in 1..(i - 1) : s[j] # "."
  ELSE Len(s) + 1

FloatOk(s) ==
  LET p == FloatPoint(s)
      ip == SubSeq(s, 1, p - 1)
      fp == SubSeq(s, p + 1, Len(s))
  IN /\ AllDigits(ip) /\ AllDigits(fp)
     /\ Len(ip) + Len(fp) >= 1
     /\ Len(fp) <= 3

float(s) ==
  LET p == FloatPoint(s)
      ip == SubSeq(s, 1, p - 1)
      fp == SubSeq(s, p + 1, Len(s))
      scale == CASE Len(fp) = 0 -> 1000 [] Len(fp) = 1 -> 100
                 [] Len(fp) = 2 -> 10 [] Len(fp) = 3 -> 1
  IN DigitsVal(ip) * 1000 + DigitsVal(fp) * scale

\* text[i..j] exists and is all digits
DigitsAt(text, i, j) ==
  /\ i >= 1 /\ j <= Len(text)
  /\ \A k \in i..j : text[k] \in Digits

CharAt(text, i, c) == i >= 1 /\ i <= Len(text) /\ text[i] = c

\* substring test of Python's str
Contains(text, part) ==
  \E i \in 1..(Len(text) - Len(part) + 1) :
    SubSeq(text, i, i + Len(part) - 1) = part

----------------------------------------------------------------------------
(* The two regular expressions of main() *)

NoMatch == [ok |-> FALSE, hour |-> 0, minute |-> 0, elevation |-> 0]

\* ([0-9]{1,2}):([0-9]{2})(-?[0-9]{1,2})°  anchored at position off + 1.
\* hl is the width of the hour, sg the width of the sign, el the width of
\* the elevation; at most one triple fits a text.
TimeElevFits(text, off, hl, sg, el) ==
  /\ DigitsAt(text, off + 1, off + hl)
  /\ CharAt(text, off + hl + 1, ":")
  /\ DigitsAt(text, off + hl + 2, off + hl + 3)
  /\ sg = 1 => CharAt(text, off + hl + 4, "-")
  /\ DigitsAt(text, off + hl + sg + 4, off + hl + sg + el + 3)
  /\ CharAt(text, off + hl + sg + el + 4, "°")

MatchTimeElev(text, off) ==
  LET W == {w \in (1..2) \X (0..1) \X (1..2) :
              TimeElevFits(text, off, w[1], w[2], w[3])}
  IN IF W = {} THEN NoMatch
     ELSE LET w == CHOOSE v \in W : TRUE
              hl == w[1]
              sg == w[2]
              el == w[3]
          IN [ok |-> TRUE,
              hour |-> int(SubSeq(text, off + 1, off + hl)),
              minute |-> int(SubSeq(text, off + hl + 2, off + hl + 3)),
              elevation |-> int(SubSeq(text, off + hl + 4,
                                       off + hl + sg + el + 3))]

\* ^([0-9]{1,2}):([0-9]{2})(-?[0-9]{1,2})°
MatchStartEnd(text) == MatchTimeElev(text, 0)

\* ^([0-9]{2})\.([0-9]{2})\. ([0-9]{1,2}):([0-9]{2})(-?[0-9]{1,2})°
MatchCenter(text) ==
  LET m == MatchTimeElev(text, 7)
  IN IF /\ DigitsAt(text, 1, 2) /\ CharAt(text, 3, ".")
        /\ DigitsAt(text, 4, 5) /\ CharAt(text, 6, ".")
        /\ CharAt(text, 7, " ")
        /\ m.ok
     THEN [ok |-> TRUE, day |-> int(SubSeq(text, 1, 2)),
           month |-> int(SubSeq(text, 4, 5)),
           hour |-> m.hour, minute |-> m.minute, elevation |-> m.elevation]
     ELSE [ok |-> FALSE, day |-> 0, month |-> 0,
           hour |-> 0, minute |-> 0, elevation |-> 0]

----------------------------------------------------------------------------
(* datetime *)

IsLeap(y) == (y % 4 = 0 /\ y % 100 # 0) \/ y % 400 = 0

DaysInMonth(y, m) ==
  CASE m \in {1, 3, 5, 7, 8, 10, 12} -> 31
    [] m \in {4, 6, 9, 11} -> 30
    [] m = 2 -> IF IsLeap(y) THEN 29 ELSE 28

\* datetime.datetime(year, month, day, hour, minute, tzinfo=utc) raises
\* ValueError unless every field is in range.
DatetimeOk(y, mo, d, h, mi) ==
  /\ mo \in 1..12
  /\ d >= 1 /\ d <= DaysInMonth(y, mo)
  /\ h \in 0..23
  /\ mi \in 0..59

\* an aware datetime; utcoffset is in minutes
datetime(y, mo, d, h, mi) ==
  [year |-> y, month |-> mo, day |-> d, hour |-> h, minute |-> mi,
   utcoffset |-> 0]

\* datetime.__lt__ for two datetimes of the same utcoffset
DatetimeLess(a, b) ==
  \/ a.year < b.year
  \/ a.year = b.year /\ a.month < b.month
  \/ a.year = b.year /\ a.month = b.month /\ a.day < b.day
  \/ a.year = b.year /\ a.month = b.month /\ a.day = b.day
       /\ a.hour * 60 + a.minute < b.hour * 60 + b.minute

\* datetime.timetz(): the time of day with the tzinfo kept. tz is <<>> for a
\* naive time and <<offset in minutes>> for an aware one.
timetz(dt) == [hour |-> dt.hour, minute |-> dt.minute, tz |-> <<dt.utcoffset>>]

\* datetime.time.fromisoformat for "HH:MM" and "HH:MM+HH:MM" / "HH:MM-HH:MM";
\* other texts raise ValueError.
IsoHHMMAt(s, off) ==
  /\ DigitsAt(s, off + 1, off + 2) /\ CharAt(s, off + 3, ":")
  /\ DigitsAt(s, off + 4, off + 5)
  /\ int(SubSeq(s, off + 1, off + 2)) \in 0..23
  /\ int(SubSeq(s, off + 4, off + 5)) \in 0..59

IsoMinutesAt(s, off) ==
  int(SubSeq(s, off + 1, off + 2)) * 60 + int(SubSeq(s, off + 4, off + 5))

FromIsoOk(s) ==
  \/ Len(s) = 5 /\ IsoHHMMAt(s, 0)
  \/ Len(s) = 11 /\ IsoHHMMAt(s, 0) /\ s[6] \in {"+", "-"} /\ IsoHHMMAt(s, 6)

fromisoformat(s) ==
  [hour |-> int(SubSeq(s, 1, 2)), minute |-> int(SubSeq(s, 4, 5)),
   tz |-> IF Len(s) = 5 THEN <<>>
          ELSE IF s[6] = "+" THEN <<IsoMinutesAt(s, 6)>>
          ELSE <<0 - IsoMinutesAt(s, 6)>>]

\* time.__ge__ / time.__le__: ordering a naive and an aware time raises
\* TypeError; two aware times are ordered after subtracting their offsets.
TimeCmpOk(a, b) == (a.tz = <<>>) = (b.tz = <<>>)

TimeKey(a) ==
  a.hour * 60 + a.minute - (IF a.tz = <<>> THEN 0 ELSE a.tz[1])

TimeGe(a, b) == TimeKey(a) >= TimeKey(b)
TimeLe(a, b) == TimeKey(a) <= TimeKey(b)

\* dt.astimezone(timezone(timedelta(hours=2))).strftime("%Y-%m-%d %H:%M"),
\* as the fields that are printed
CestOffset == 120

astimezone(dt) ==
  LET total == dt.hour * 60 + dt.minute + (CestOffset - dt.utcoffset)
      carry == total >= 1440
      t == IF carry THEN total - 1440 ELSE total
      lastDay == dt.day = DaysInMonth(dt.year, dt.month)
      d == IF ~carry THEN dt.day ELSE IF lastDay THEN 1 ELSE dt.day + 1
      mo == IF carry /\ lastDay
            THEN (IF dt.month = 12 THEN 1 ELSE dt.month + 1)
            ELSE dt.month
      y == IF carry /\ lastDay /\ dt.month = 12 THEN dt.year + 1 ELSE dt.year
  IN [year |-> y, month |-> mo, day |-> d, hour |-> t \div 60,
      minute |-> t % 60, utcoffset |-> CestOffset]

----------------------------------------------------------------------------
(* Filter functions. A call returns [exc, ret]: exc is "" and ret the      *)
(* returned bool, or exc names the exception the call raised.              *)

Return(b) == [exc |-> "", ret |-> b]
Raise(e) == [exc |-> e, ret |-> FALSE]

\* transit[key]["time"] / transit[key]["elevation"] raise KeyError when the
\* key was never set
Has(opt) == opt # <<>>

filter_depth(transit, cfg) ==
  Return(transit.mag_depth >= cfg.min_mag_depth)

filter_time(transit, cfg) ==
  IF ~FromIsoOk(cfg.min_start_time) \/ ~FromIsoOk(cfg.max_end_time)
  THEN Raise("ValueError")
  ELSE IF ~Has(transit.begin.time) \/ ~Has(transit.end.time)
  THEN Raise("KeyError")
  ELSE LET min_start_time == fromisoformat(cfg.min_start_time)
           max_end_time == fromisoformat(cfg.max_end_time)
           start_time == timetz(transit.begin.time[1])
           end_time == timetz(transit.end.time[1])
       IN IF ~TimeCmpOk(start_time, min_start_time) THEN Raise("TypeError")
          ELSE IF ~TimeGe(start_time, min_start_time) THEN Return(FALSE)
          ELSE IF ~TimeCmpOk(end_time, max_end_time) THEN Raise("TypeError")
          ELSE IF TimeLe(end_time, max_end_time) THEN Return(TRUE)
          ELSE Return(FALSE)

\* a variant that compares with <= instead of <
filter_meridian_flip_le(transit) ==
  IF ~Has(transit.begin.elevation) \/ ~Has(transit.center.elevation)
     \/ ~Has(transit.end.elevation)
  THEN Raise("KeyError")
  ELSE LET be == transit.begin.elevation[1]
           ce == transit.center.elevation[1]
           ee == transit.end.elevation[1]
       IN IF be <= ce /\ ee <= ce THEN Return(FALSE) ELSE Return(TRUE)

filter_meridian_flip(transit) ==
  IF ~Has(transit.begin.elevation) \/ ~Has(transit.center.elevation)
     \/ ~Has(transit.end.elevation)
  THEN Raise("KeyError")
  ELSE LET be == transit.begin.elevation[1]
           ce == transit.center.elevation[1]
           ee == transit.end.elevation[1]
       IN IF be < ce /\ ee < ce THEN Return(FALSE) ELSE Return(TRUE)

filter_elevation(transit, cfg) ==
  IF ~Has(transit.begin.elevation) THEN Raise("KeyError")
  ELSE IF transit.begin.elevation[1] < cfg.elevation_threshold
  THEN Return(FALSE)
  ELSE IF ~Has(transit.end.elevation) THEN Raise("KeyError")
  ELSE IF transit.end.elevation[1] < cfg.elevation_threshold
  THEN Return(FALSE)
  ELSE IF ~Has(transit.center.elevation) THEN Raise("KeyError")
  ELSE IF transit.center.elevation[1] < cfg.elevation_threshold
  THEN Return(FALSE)
  ELSE Return(TRUE)

----------------------------------------------------------------------------
(* Inputs: the rows of the fetched table, the configuration, the year and  *)
(* the answers of the popularity service                                   *)

\* one <tr valign="top">: a is tr.find("a") (<<>> for None, else <<a.string>>),
\* td1, td2, td3 and td6 are the texts of tds[1], tds[2], tds[3] and tds[6]
Row(a, td1, td2, td3, td6) ==
  [a |-> a, td1 |-> td1, td2 |-> td2, td3 |-> td3, td6 |-> td6]

\* passes every filter, on each boundary
RowGood ==
  Row(<<<<"A", " ", "b">>>>,
      <<"1", "8", ":", "0", "0", "2", "0", "°", ",", "N", "E">>,
      <<"2", "0", ".", "0", "6", ".", " ", "2", "0", ":", "3", "0", "3", "0", "°", ",", "N", "E">>,
      <<"2", "3", ":", "0", "0", "4", "0", "°", ",", "E">>,
      <<"0", ".", "0", "1", "5">>)

\* culminates between begin and end
RowFlip ==
  Row(<<<<"B", " ", "b">>>>,
      <<"1", "9", ":", "0", "0", "2", "5", "°", ",", "E">>,
      <<"2", "0", ".", "0", "6", ".", " ", "2", "0", ":", "0", "0", "3", "0", "°", ",", "S">>,
      <<"2", "1", ":", "0", "0", "2", "5", "°", ",", "W">>,
      <<"0", ".", "0", "2", "0">>)

\* below min_mag_depth
RowShallow ==
  Row(<<<<"C", " ", "b">>>>,
      <<"1", "9", ":", "0", "0", "3", "0", "°", ",", "E">>,
      <<"2", "0", ".", "0", "6", ".", " ", "2", "0", ":", "0", "0", "4", "0", "°", ",", "E">>,
      <<"2", "1", ":", "0", "0", "5", "0", "°", ",", "E">>,
      <<"0", ".", "0", "0", "5">>)

\* begins before min_start_time
RowEarly ==
  Row(<<<<"D", " ", "b">>>>,
      <<"1", "7", ":", "5", "9", "3", "0", "°", ",", "E">>,
      <<"2", "0", ".", "0", "6", ".", " ", "2", "0", ":", "0", "0", "4", "0", "°", ",", "E">>,
      <<"2", "1", ":", "0", "0", "5", "0", "°", ",", "E">>,
      <<"0", ".", "0", "2", "0">>)

\* begins below the elevation threshold
RowLow ==
  Row(<<<<"E", " ", "b">>>>,
      <<"1", "9", ":", "0", "0", "1", "9", "°", ",", "E">>,
      <<"2", "0", ".", "0", "6", ".", " ", "2", "0", ":", "0", "0", "3", "0", "°", ",", "E">>,
      <<"2", "1", ":", "0", "0", "4", "0", "°", ",", "E">>,
      <<"0", ".", "0", "2", "0">>)

\* begins before and ends after midnight
RowMidnight ==
  Row(<<<<"F", " ", "b">>>>,
      <<"2", "3", ":", "3", "0", "2", "0", "°", ",", "E">>,
      <<"2", "1", ".", "0", "6", ".", " ", "0", ":", "1", "5", "3", "0", "°", ",", "E">>,
      <<"1", ":", "0", "0", "4", "0", "°", ",", "E">>,
      <<"0", ".", "0", "2", "0">>)

\* begin cell without a time, shallow
RowNoBeginShallow ==
  Row(<<<<"G", " ", "b">>>>,
      <<"-">>,
      <<"2", "0", ".", "0", "6", ".", " ", "2", "0", ":", "0", "0", "3", "0", "°", ",", "E">>,
      <<"2", "1", ":", "0", "0", "4", "0", "°", ",", "E">>,
      <<"0", ".", "0", "0", "5">>)

\* begin cell without a time
RowNoBegin ==
  Row(<<<<"H", " ", "b">>>>,
      <<"-">>,
      <<"2", "0", ".", "0", "6", ".", " ", "2", "0", ":", "0", "0", "3", "0", "°", ",", "E">>,
      <<"2", "1", ":", "0", "0", "4", "0", "°", ",", "E">>,
      <<"0", ".", "0", "2", "0">>)

\* begin below the horizon, empty end cell
RowLowNoEnd ==
  Row(<<<<"I", " ", "b">>>>,
      <<"1", "9", ":", "0", "0", "-", "5", "°", ",", "E">>,
      <<"2", "0", ".", "0", "6", ".", " ", "2", "0", ":", "0", "0", "3", "0", "°", ",", "E">>,
      <<>>,
      <<"0", ".", "0", "2", "0">>)

\* one-digit month in the center cell
RowNoCenter ==
  Row(<<<<"J", " ", "b">>>>,
      <<"1", "9", ":", "0", "0", "3", "0", "°", ",", "E">>,
      <<"2", "0", ".", "6", ".", " ", "2", "0", ":", "0", "0", "4", "0", "°", ",", "E">>,
      <<"2", "1", ":", "0", "0", "5", "0", "°", ",", "E">>,
      <<"0", ".", "0", "2", "0">>)

\* end hour out of range
RowBadHour ==
  Row(<<<<"K", " ", "b">>>>,
      <<"1", "9", ":", "0", "0", "3", "0", "°", ",", "E">>,
      <<"2", "0", ".", "0", "6", ".", " ", "2", "0", ":", "0", "0", "4", "0", "°", ",", "E">>,
      <<"2", "4", ":", "3", "0", "5", "0", "°", ",", "E">>,
      <<"0", ".", "0", "2", "0">>)

\* a date that exists in leap years only
RowLeapDay ==
  Row(<<<<"L", " ", "b">>>>,
      <<"1", "9", ":", "0", "0", "3", "0", "°", ",", "E">>,
      <<"2", "9", ".", "0", "2", ".", " ", "2", "0", ":", "0", "0", "4", "0", "°", ",", "E">>,
      <<"2", "1", ":", "0", "0", "5", "0", "°", ",", "E">>,
      <<"0", ".", "0", "2", "0">>)

\* depth cell that is not a number
RowBadDepth ==
  Row(<<<<"M", " ", "b">>>>,
      <<"1", "9", ":", "0", "0", "3", "0", "°", ",", "E">>,
      <<"2", "0", ".", "0", "6", ".", " ", "2", "0", ":", "0", "0", "4", "0", "°", ",", "E">>,
      <<"2", "1", ":", "0", "0", "5", "0", "°", ",", "E">>,
      <<"n", "/", "a">>)

\* table row without a link
RowHeader ==
  Row(<<>>,
      <<"b", "e", "g", "i", "n">>,
      <<"c", "e", "n", "t", "e", "r">>,
      <<"e", "n", "d">>,
      <<"d", "e", "p", "t", "h">>)

SampleRows ==
  {RowGood, RowFlip, RowShallow, RowEarly,
   RowLow, RowMidnight, RowNoBeginShallow, RowNoBegin,
   RowLowNoEnd, RowNoCenter, RowBadHour, RowLeapDay,
   RowBadDepth, RowHeader}

\* configmanager.readConfig(): mag depth in thousandths, elevation in degrees
Config(min_start_time, max_end_time) ==
  [min_mag_depth |-> 10, elevation_threshold |-> 20,
   min_start_time |-> min_start_time, max_end_time |-> max_end_time]

ConfigPlain == Config(<<"1", "8", ":", "0", "0">>, <<"2", "3", ":", "0", "0">>)

ConfigUtc ==
  Config(<<"1", "8", ":", "0", "0", "+", "0", "0", ":", "0", "0">>,
         <<"2", "3", ":", "0", "0", "+", "0", "0", ":", "0", "0">>)

Configs == {ConfigPlain, ConfigUtc}

\* datetime.date.today().year
Years == {2023, 2024}

\* text of the sample-count cell in the answer of the popularity service
Responses == {<<"2">>, <<"5">>, <<"n", "/", "a">>}

\* print("Could not parse string '{center_text}'"): the string has no f prefix
CouldNotParse ==
  <<"C", "o", "u", "l", "d", " ", "n", "o", "t", " ",
    "p", "a", "r", "s", "e", " ", "s", "t", "r", "i",
    "n", "g", " ", "'", "{", "c", "e", "n", "t", "e",
    "r", "_", "t", "e", "x", "t", "}", "'">>

----------------------------------------------------------------------------
(* The filter chain of main(): four nested lazy filter() objects, so each  *)
(* element runs through the predicates in turn before the next is pulled.  *)

CodeOrder == <<"depth", "meridian", "time", "elevation">>

ApplyFilter(name, transit, cfg) ==
  CASE name = "depth" -> filter_depth(transit, cfg)
    [] name = "meridian" -> filter_meridian_flip(transit)
    [] name = "time" -> filter_time(transit, cfg)
    [] name = "elevation" -> filter_elevation(transit, cfg)

RECURSIVE ChainFrom(_, _, _, _)
ChainFrom(order, k, transit, cfg) ==
  IF k > Len(order) THEN Return(TRUE)
  ELSE LET r == ApplyFilter(order[k], transit, cfg)
       IN IF r.exc # "" THEN r
          ELSE IF ~r.ret THEN Return(FALSE)
          ELSE ChainFrom(order, k + 1, transit, cfg)

\* a variant that leaves out the elevation filter
ChainNoElevation(transit, cfg) ==
  ChainFrom(<<"depth", "meridian", "time">>, 1, transit, cfg)

Chain(transit, cfg) == ChainFrom(CodeOrder, 1, transit, cfg)

\* list(transits) over a chain in the given order: the surviving list, or
\* the first exception
RECURSIVE RunChain(_, _, _)
RunChain(order, list, cfg) ==
  IF list = <<>> THEN [exc |-> "", list |-> <<>>]
  ELSE LET r == ChainFrom(order, 1, Head(list), cfg)
       IN IF r.exc # "" THEN [exc |-> r.exc, list |-> <<>>]
          ELSE LET rest == RunChain(order, Tail(list), cfg)
               IN IF rest.exc # "" THEN rest
                  ELSE [exc |-> "",
                        list |-> IF r.ret THEN <<Head(list)>> \o rest.list
                                 ELSE rest.list]

----------------------------------------------------------------------------
(* list.sort(key=lambda k: k["n_samples"]): binary insertion sort, each    *)
(* element is inserted to the right of the elements with an equal key      *)

SortKey(transit) == transit.n_samples[1]

\* a variant that inserts to the left of the elements with an equal key
insort_left(s, x) ==
  LET k == Cardinality({i \in 1..Len(s) : SortKey(s[i]) < SortKey(x)})
  IN SubSeq(s, 1, k) \o <<x>> \o SubSeq(s, k + 1, Len(s))

insort(s, x) ==
  LET k == Cardinality({i \in 1..Len(s) : SortKey(s[i]) <= SortKey(x)})
  IN SubSeq(s, 1, k) \o <<x>> \o SubSeq(s, k + 1, Len(s))

RECURSIVE sort(_)
sort(s) ==
  IF s = <<>> THEN <<>>
  ELSE insort(sort(SubSeq(s, 1, Len(s) - 1)), s[Len(s)])

----------------------------------------------------------------------------
(* main() *)

\* transit_template with "object" and "mag_depth" set
Empty == [time |-> <<>>, elevation |-> <<>>]

Moment(y, mo, d, m) ==
  [time |-> <<datetime(y, mo, d, m.hour, m.minute)>>,
   elevation |-> <<m.elevation>>]

\* extractStartEndTimes: sets both keys when the text matches, none otherwise
extractStartEndTimes(text, y, mo, d) ==
  LET m == MatchStartEnd(text)
  IN IF m.ok THEN Moment(y, mo, d, m) ELSE Empty

\* extractStartEndTimes raises ValueError from datetime.datetime()
StartEndRaises(text, y, mo, d) ==
  LET m == MatchStartEnd(text)
  IN m.ok /\ ~DatetimeOk(y, mo, d, m.hour, m.minute)

\* the dictionary appended for a row whose center text matches
BuildTransit(row, y) ==
  LET c == MatchCenter(row.td2)
  IN [object |-> row.a[1],
      mag_depth |-> float(row.td6),
      n_samples |-> <<>>,
      begin |-> extractStartEndTimes(row.td1, y, c.month, c.day),
      center |-> Moment(y, c.month, c.day, c),
      end |-> extractStartEndTimes(row.td3, y, c.month, c.day)]

\* the row makes float() or datetime.datetime() raise ValueError
RowRaises(row, y) ==
  LET c == MatchCenter(row.td2)
  IN \/ ~FloatOk(row.td6)
     \/ /\ c.ok
        /\ \/ ~DatetimeOk(y, c.month, c.day, c.hour, c.minute)
           \/ StartEndRaises(row.td1, y, c.month, c.day)
           \/ StartEndRaises(row.td3, y, c.month, c.day)

NoExc == <<>>

Line(kind, body) == [kind |-> kind, body |-> body]

Init ==
  /\ pc = "rows"
  /\ year \in Years
  /\ config \in Configs
  /\ nrows = 0
  /\ tr = <<>>
  /\ transits = <<>>
  /\ filtered = <<>>
  /\ fidx = 1
  /\ eidx = 1
  /\ calls = <<>>
  /\ pending = 0
  /\ stdout = <<>>
  /\ exc = NoExc
  /\ verdict = <<>>

\* if a == None: continue
SkipRow ==
  /\ pc = "rows" /\ nrows < MaxRows
  /\ \E row \in SampleRows :
       /\ row.a = <<>>
       /\ tr' = <<row>>
  /\ nrows' = nrows + 1
  /\ UNCHANGED <<pc, year, config, transits, filtered, fidx, eidx, calls,
                 pending, stdout, exc, verdict>>

\* float(tds[6].get_text()) or datetime.datetime(...) raises ValueError
RowValueError ==
  /\ pc = "rows" /\ nrows < MaxRows
  /\ \E row \in SampleRows :
       /\ row.a # <<>>
       /\ RowRaises(row, year)
       /\ tr' = <<row>>
  /\ nrows' = nrows + 1
  /\ pc' = "raised"
  /\ exc' = <<"rows", "ValueError">>
  /\ UNCHANGED <<year, config, transits, filtered, fidx, eidx, calls,
                 pending, stdout, verdict>>

\* the center text does not match: print and return
RowCenterNoMatch ==
  /\ pc = "rows" /\ nrows < MaxRows
  /\ \E row \in SampleRows :
       /\ row.a # <<>>
       /\ FloatOk(row.td6)
       /\ ~MatchCenter(row.td2).ok
       /\ tr' = <<row>>
  /\ nrows' = nrows + 1
  /\ stdout' = Append(stdout, Line("text", CouldNotParse))
  /\ pc' = "returned"
  /\ UNCHANGED <<year, config, transits, filtered, fidx, eidx, calls,
                 pending, exc, verdict>>

\* transits.append(transit)
AppendRow ==
  /\ pc = "rows" /\ nrows < MaxRows
  /\ \E row \in SampleRows :
       /\ row.a # <<>>
       /\ ~RowRaises(row, year)
       /\ MatchCenter(row.td2).ok
       /\ tr' = <<row>>
       /\ transits' = Append(transits, BuildTransit(row, year))
  /\ nrows' = nrows + 1
  /\ UNCHANGED <<pc, year, config, filtered, fidx, eidx, calls, pending,
                 stdout, exc, verdict>>

\* the table has no more rows
EndOfRows ==
  /\ pc = "rows"
  /\ pc' = "filter"
  /\ UNCHANGED <<year, config, nrows, tr, transits, filtered, fidx, eidx,
                 calls, pending, stdout, exc, verdict>>

\* list(transits) pulls the next element through the chain and keeps it
FilterKeep ==
  /\ pc = "filter" /\ fidx <= Len(transits)
  /\ Chain(transits[fidx], config) = Return(TRUE)
  /\ filtered' = Append(filtered, transits[fidx])
  /\ fidx' = fidx + 1
  /\ UNCHANGED <<pc, year, config, nrows, tr, transits, eidx, calls, pending,
                 stdout, exc, verdict>>

\* ... and drops it
FilterDiscard ==
  /\ pc = "filter" /\ fidx <= Len(transits)
  /\ Chain(transits[fidx], config) = Return(FALSE)
  /\ fidx' = fidx + 1
  /\ UNCHANGED <<pc, year, config, nrows, tr, transits, filtered, eidx,
                 calls, pending, stdout, exc, verdict>>

\* ... or a predicate raises
FilterRaise ==
  /\ pc = "filter" /\ fidx <= Len(transits)
  /\ Chain(transits[fidx], config).exc # ""
  /\ pc' = "raised"
  /\ exc' = <<"filter", Chain(transits[fidx], config).exc>>
  /\ UNCHANGED <<year, config, nrows, tr, transits, filtered, fidx, eidx,
                 calls, pending, stdout, verdict>>

\* list(transits) returns
FilterDone ==
  /\ pc = "filter" /\ fidx > Len(transits)
  /\ pc' = "enrich"
  /\ UNCHANGED <<year, config, nrows, tr, transits, filtered, fidx, eidx,
                 calls, pending, stdout, exc, verdict>>

\* get_database_sample_number(config, transit["object"]) sends its request
EnrichCall ==
  /\ pc = "enrich" /\ eidx <= Len(filtered)
  /\ LET star_and_planet == filtered[eidx].object
     IN calls' = Append(calls,
          [idx |-> eidx,
           star |-> SubSeq(star_and_planet, 1, Len(star_and_planet) - 2),
           planet |-> star_and_planet[Len(star_and_planet)]])
  /\ pending' = eidx
  /\ pc' = "waiting"
  /\ UNCHANGED <<year, config, nrows, tr, transits, filtered, fidx, eidx,
                 stdout, exc, verdict>>

\* the answer arrives and int(n_samples) is stored
EnrichReturn ==
  /\ pc = "waiting"
  /\ \E resp \in Responses :
       /\ IntOk(resp)
       /\ filtered' = [filtered EXCEPT ![eidx].n_samples = <<int(resp)>>]
  /\ pending' = 0
  /\ eidx' = eidx + 1
  /\ pc' = "enrich"
  /\ UNCHANGED <<year, config, nrows, tr, transits, fidx, calls, stdout, exc,
                 verdict>>

\* urlopen raises URLError, or int(n_samples) raises ValueError
EnrichRaise ==
  /\ pc = "waiting"
  /\ \/ exc' = <<"enrich", "URLError">>
     \/ \E resp \in Responses :
          /\ ~IntOk(resp)
          /\ exc' = <<"enrich", "ValueError">>
  /\ pending' = 0
  /\ pc' = "raised"
  /\ UNCHANGED <<year, config, nrows, tr, transits, filtered, fidx, eidx,
                 calls, stdout, verdict>>

\* transits.sort(key=lambda k: k["n_samples"]) after the for loop
SortStep ==
  /\ pc = "enrich" /\ eidx > Len(filtered)
  /\ filtered' = sort(filtered)
  /\ pc' = "print"
  /\ UNCHANGED <<year, config, nrows, tr, transits, fidx, eidx, calls,
                 pending, stdout, exc, verdict>>

CsvHeader ==
  <<"object", "mag_depth", "n_samples", "begin time (cest)",
    "begin elevation", "center time (cest)", "center elevation",
    "end time (cest)", "end elevation">>

\* the fields of one CSV line, before str() and strftime()
CsvData(transit) ==
  [object |-> transit.object,
   mag_depth |-> transit.mag_depth,
   n_samples |-> transit.n_samples[1],
   begin_time |-> astimezone(transit.begin.time[1]),
   begin_elevation |-> transit.begin.elevation[1],
   center_time |-> astimezone(transit.center.time[1]),
   center_elevation |-> transit.center.elevation[1],
   end_time |-> astimezone(transit.end.time[1]),
   end_elevation |-> transit.end.elevation[1]]

print_transits_csv ==
  /\ pc = "print"
  /\ stdout' = stdout \o <<Line("header", CsvHeader)>>
                 \o [i \in 1..Len(filtered) |-> Line("row", CsvData(filtered[i]))]
  /\ pc' = "done"
  /\ UNCHANGED <<year, config, nrows, tr, transits, filtered, fidx, eidx,
                 calls, pending, exc, verdict>>

Next ==
  \/ SkipRow
  \/ RowValueError
  \/ RowCenterNoMatch
  \/ AppendRow
  \/ EndOfRows
  \/ FilterKeep
  \/ FilterDiscard
  \/ FilterRaise
  \/ FilterDone
  \/ EnrichCall
  \/ EnrichReturn
  \/ EnrichRaise
  \/ SortStep
  \/ print_transits_csv

Spec == Init /\ [][Next]_vars

----------------------------------------------------------------------------
(* The filter functions on their own: one candidate as main() builds it,   *)
(* one call of one filter function                                         *)

FilterElevations == {-5, 10, 15, 30, 40}
FilterBeginTimes == {<<17, 59>>, <<18, 0>>}
FilterEndTimes == {<<23, 0>>, <<23, 1>>}
FilterDepths == {5, 10}

FilterCandidate(y, depth, bt, et, be, ce, ee) ==
  [object |-> <<"A", " ", "b">>,
   mag_depth |-> depth,
   n_samples |-> <<>>,
   begin |-> [time |-> <<datetime(y, 6, 20, bt[1], bt[2])>>,
              elevation |-> <<be>>],
   center |-> [time |-> <<datetime(y, 6, 20, 20, 0)>>, elevation |-> <<ce>>],
   end |-> [time |-> <<datetime(y, 6, 20, et[1], et[2])>>,
            elevation |-> <<ee>>]]

InitFilter ==
  /\ pc = "call"
  /\ year \in Years
  /\ config \in Configs
  /\ \E depth \in FilterDepths, bt \in FilterBeginTimes, et \in FilterEndTimes,
        be \in FilterElevations, ce \in FilterElevations,
        ee \in FilterElevations :
       transits = <<FilterCandidate(year, depth, bt, et, be, ce, ee)>>
  /\ nrows = 1
  /\ tr = <<>>
  /\ filtered = <<>>
  /\ fidx = 1
  /\ eidx = 1
  /\ calls = <<>>
  /\ pending = 0
  /\ stdout = <<>>
  /\ exc = NoExc
  /\ verdict = <<>>

\* lambda t: t["mag_depth"] >= config["min_mag_depth"]
CallFilterDepth ==
  /\ pc = "call"
  /\ verdict' = <<[fn |-> "depth", result |-> filter_depth(transits[1], config)]>>
  /\ pc' = "called"
  /\ UNCHANGED <<year, config, nrows, tr, transits, filtered, fidx, eidx,
                 calls, pending, stdout, exc>>

\* filter_meridian_flip(transit)
CallFilterMeridianFlip ==
  /\ pc = "call"
  /\ verdict' = <<[fn |-> "meridian", result |-> filter_meridian_flip(transits[1])]>>
  /\ pc' = "called"
  /\ UNCHANGED <<year, config, nrows, tr, transits, filtered, fidx, eidx,
                 calls, pending, stdout, exc>>

\* filter_time(transit, config)
CallFilterTime ==
  /\ pc = "call"
  /\ verdict' = <<[fn |-> "time", result |-> filter_time(transits[1], config)]>>
  /\ pc' = "called"
  /\ UNCHANGED <<year, config, nrows, tr, transits, filtered, fidx, eidx,
                 calls, pending, stdout, exc>>

\* filter_elevation(transit, config)
CallFilterElevation ==
  /\ pc = "call"
  /\ verdict' = <<[fn |-> "elevation", result |-> filter_elevation(transits[1], config)]>>
  /\ pc' = "called"
  /\ UNCHANGED <<year, config, nrows, tr, transits, filtered, fidx, eidx,
                 calls, pending, stdout, exc>>

NextFilter ==
  \/ CallFilterDepth
  \/ CallFilterMeridianFlip
  \/ CallFilterTime
  \/ CallFilterElevation

SpecFilter == InitFilter /\ [][NextFilter]_vars

----------------------------------------------------------------------------
(* The sort and the output on their own: main() after the enrichment loop, *)
(* with every list of enriched candidates up to MaxSortLen                 *)

SortCounts == {2, 5, 9}

DigitChar(i) == CHOOSE c \in Digits : DigitVal(c) = i

\* the i-th candidate of the list: RowGood under the name "X<i> b"
SortCandidate(y, i) ==
  [BuildTransit(RowGood, y) EXCEPT !.object = <<"X", DigitChar(i), " ", "b">>]

InitSort ==
  /\ pc = "enrich"
  /\ year \in Years
  /\ config = ConfigUtc
  /\ \E n \in 0..MaxSortLen :
       /\ nrows = n
       /\ transits = [i \in 1..n |-> SortCandidate(year, i)]
       /\ \E counts \in [1..n -> SortCounts] :
            filtered = [i \in 1..n |->
                          [transits[i] EXCEPT !.n_samples = <<counts[i]>>]]
       /\ fidx = n + 1
       /\ eidx = n + 1
       /\ calls = [i \in 1..n |->
                     [idx |-> i, star |-> <<"X", DigitChar(i)>>,
                      planet |-> "b"]]
  /\ tr = <<RowGood>>
  /\ pending = 0
  /\ stdout = <<>>
  /\ exc = NoExc
  /\ verdict = <<>>

NextSort ==
  \/ SortStep
  \/ print_transits_csv

SpecSort == InitSort /\ [][NextSort]_vars

----------------------------------------------------------------------------
(* Properties *)

Complete(transit) ==
  /\ Has(transit.begin.time) /\ Has(transit.begin.elevation)
  /\ Has(transit.center.time) /\ Has(transit.center.elevation)
  /\ Has(transit.end.time) /\ Has(transit.end.elevation)

\* minutes since midnight of a moment and of a configured time of day
TimeOfDay(moment) == TimeKey(timetz(moment.time[1]))
ConfigTimeOfDay(text) == TimeKey(fromisoformat(text))

DepthOk(transit) == transit.mag_depth >= config.min_mag_depth

NoFlip(transit) ==
  ~(/\ transit.begin.elevation[1] < transit.center.elevation[1]
    /\ transit.end.elevation[1] < transit.center.elevation[1])

InWindow(transit) ==
  /\ TimeOfDay(transit.begin) >= ConfigTimeOfDay(config.min_start_time)
  /\ TimeOfDay(transit.end) <= ConfigTimeOfDay(config.max_end_time)

HighEnough(transit) ==
  /\ transit.begin.elevation[1] >= config.elevation_threshold
  /\ transit.center.elevation[1] >= config.elevation_threshold
  /\ transit.end.elevation[1] >= config.elevation_threshold

SatisfiesAll(transit) ==
  /\ Complete(transit)
  /\ DepthOk(transit) /\ NoFlip(transit)
  /\ InWindow(transit) /\ HighEnough(transit)

ResultRows == {i \in 1..Len(stdout) : stdout[i].kind = "row"}

\* C1: every candidate appended by the row loop of main() has
\* begin.time < center.time < end.time, also when begin or end lie on the
\* other side of midnight from the center.
C1_ChronologicalOrder ==
  \A i \in 1..Len(transits) :
    (Has(transits[i].begin.time) /\ Has(transits[i].end.time))
      => /\ DatetimeLess(transits[i].begin.time[1], transits[i].center.time[1])
         /\ DatetimeLess(transits[i].center.time[1], transits[i].end.time[1])

\* C2: a row whose begin, center or end text does not match its pattern is
\* never appended as a candidate with a missing time or elevation.
C2_NoMatchIsFatal ==
  \A i \in 1..Len(transits) : Complete(transits[i])

\* C3: the filter stage raises no error, and the list handed to enrichment
\* is exactly the sub-list, in input order, of the candidates that satisfy
\* all four predicates.
C3_FilteredIsSublist ==
  /\ ~(pc = "raised" /\ exc[1] = "filter")
  /\ (pc = "enrich" /\ eidx = 1) => filtered = SelectSeq(transits, SatisfiesAll)

\* C4: with plain time-of-day strings in the configuration, filter_time
\* returns a keep/discard value, and returns keep iff the begin time of day
\* is >= min_start_time and the end time of day is <= max_end_time.
C4_TimeWindow ==
  (pc = "called" /\ verdict[1].fn = "time" /\ config = ConfigPlain)
    => verdict[1].result = Return(InWindow(transits[1]))

\* C5: filter_meridian_flip discards a candidate iff its begin and its end
\* elevation are both strictly below its center elevation, whatever the
\* times, the depth and the configuration.
C5_MeridianFlip ==
  (pc = "called" /\ verdict[1].fn = "meridian")
    => verdict[1].result = Return(NoFlip(transits[1]))

Elevations(transit) ==
  <<transit.begin.elevation[1], transit.center.elevation[1],
    transit.end.elevation[1]>>

\* the elevations (10, 30, 15) were discarded
C5_Witness ==
  /\ pc = "called" /\ verdict[1].fn = "meridian"
  /\ Elevations(transits[1]) = <<10, 30, 15>>
  /\ verdict[1].result = Return(FALSE)

IsStableSortOf(out, in) ==
  /\ Len(out) = Len(in)
  /\ \E p \in Permutations(1..Len(in)) :
       /\ \A i \in 1..Len(in) : out[i] = in[p[i]]
       /\ \A i, j \in 1..Len(in) :
            i < j =>
              /\ SortKey(out[i]) <= SortKey(out[j])
              /\ SortKey(out[i]) = SortKey(out[j]) => p[i] < p[j]

\* C6: the sort yields a permutation of the enriched list that is
\* non-decreasing in n_samples and keeps the order of candidates with equal
\* n_samples.
C6_StableSort ==
  [][(pc = "enrich" /\ pc' = "print") => IsStableSortOf(filtered', filtered)]_vars

\* the list with n_samples 5, 2, 2, 9 was sorted to 2, 2, 5, 9
C6_Witness ==
  /\ pc = "print"
  /\ Len(filtered) = 4
  /\ [i \in 1..4 |-> filtered[i].n_samples[1]] = <<2, 2, 5, 9>>
  /\ [i \in 1..4 |-> filtered[i].object[2]] = <<"2", "3", "1", "4">>

\* C7: result rows are printed only in runs in which every row parsed and
\* every enrichment call succeeded.
C7_NoPartialResults ==
  ResultRows # {}
    => /\ \A i \in 1..Len(transits) : Complete(transits[i])
       /\ pc \notin {"returned", "raised"}

FilterOrders ==
  {[i \in 1..4 |-> CodeOrder[p[i]]] : p \in Permutations(1..4)}

\* C8: every order of the four filters gives the same outcome of the filter
\* stage for the built list: the same surviving list or the same abort.
C8_OrderInsignificant ==
  (pc = "filter" /\ fidx = 1)
    => \A order \in FilterOrders :
         RunChain(order, transits, config) = RunChain(CodeOrder, transits, config)

\* C9: the message printed when a center text does not match contains that
\* text.
C9_DiagnosticNamesFragment ==
  pc = "returned" => Contains(stdout[Len(stdout)].body, tr[1].td2)

Unenriched(transit) == [transit EXCEPT !.n_samples = <<>>]

\* C10: enrichment calls are issued only after list() has filtered every
\* candidate, only for candidates that pass all four filters, once each, in
\* list order and one at a time; the sort waits for the last answer and the
\* output for the sort, so every printed candidate has n_samples.
C10_StageOrder ==
  /\ Len(calls) <= Len(filtered)
  /\ calls # <<>> => (pc \notin {"rows", "filter"} /\ fidx > Len(transits))
  /\ \A k \in 1..Len(calls) : calls[k].idx = k
  /\ pending # 0 => (pc = "waiting" /\ pending = Len(calls))
  /\ pc \in {"enrich", "waiting", "raised"} =>
       /\ \A k \in 1..Len(calls) :
            /\ SatisfiesAll(filtered[k])
            /\ \E i \in 1..Len(transits) :
                 transits[i] = Unenriched(filtered[k])
            /\ calls[k].star \o <<" ", calls[k].planet>> = filtered[k].object
            /\ k < Len(calls) => Has(filtered[k].n_samples)
       /\ \A k \in (Len(calls) + 1)..Len(filtered) :
            ~Has(filtered[k].n_samples)
  /\ pc \in {"print", "done"} =>
       /\ Len(calls) = Len(filtered)
       /\ pending = 0
       /\ \A k \in 1..Len(filtered) :
            Has(filtered[k].n_samples) /\ SatisfiesAll(filtered[k])
  /\ ResultRows # {} =>
       /\ pc = "done"
       /\ Cardinality(ResultRows) = Len(filtered)
       /\ \A i \in 1..Len(filtered) :
            /\ stdout[i + 1].kind = "row"
            /\ stdout[i + 1].body.object = filtered[i].object
            /\ stdout[i + 1].body.n_samples = filtered[i].n_samples[1]

\* a run that discarded one candidate and printed the other
C10_Witness ==
  /\ pc = "done"
  /\ Len(transits) = 2 /\ Len(filtered) = 1
  /\ Len(calls) = 1
  /\ ResultRows # {}

====
